---- MODULE Spec2Model ----
(***************************************************************************)
(* parse_go_timestamp (src/src/stdlib/parse_go_timestamp.rs): a call site  *)
(* is bound to the parameter schema, compiled once into a                  *)
(* ParseGoTimestampFn node, and the node is then resolved by several       *)
(* evaluations, each with its own Context.                                 *)
(*                                                                         *)
(* Texts are tuples of one-character strings so that the layout parser can *)
(* walk them.  An instant is <<days, sod, nsec>>: whole days since         *)
(* 1970-01-01, second of the day, nanosecond.  Unix seconds are            *)
(* days * 86400 + sod; they are kept split because they exceed the         *)
(* 32-bit integers of TLC.                                                 *)
(***************************************************************************)
EXTENDS Integers, Sequences, FiniteSets, TLC

\* Longest formats array of a generated call site.
MaxFormats == 2
\* Number of evaluations that resolve the compiled node concurrently.
NumEvals == 2

Evals == 1..NumEvals

---------------------------------------------------------------------------
(* Value: the kinds the function distinguishes.                            *)

Bytes(s) == [kind |-> "bytes", text |-> s]
Timestamp(t) == [kind |-> "timestamp", ts |-> t]
Integer(n) == [kind |-> "integer", n |-> n]
Boolean(b) == [kind |-> "boolean", b |-> b]

Ok(v) == [tag |-> "ok", v |-> v]
Err(r) == [tag |-> "err", reason |-> r]
\* The outcome of unwrap() on None: the evaluation aborts.
Panic == [tag |-> "panic"]

---------------------------------------------------------------------------
(* Sample texts.                                                           *)

\* "02/01/2006 15:04": day/month/year
LayoutDMY == <<"0", "2", "/", "0", "1", "/", "2", "0", "0", "6", " ", "1", "5", ":", "0", "4">>
\* "01/02/2006 15:04": month/day/year
LayoutMDY == <<"0", "1", "/", "0", "2", "/", "2", "0", "0", "6", " ", "1", "5", ":", "0", "4">>
\* "02/01/2006 15:04:05", the layout of the second example
LayoutDMYS == <<"0", "2", "/", "0", "1", "/", "2", "0", "0", "6", " ", "1", "5", ":", "0", "4", ":", "0", "5">>
\* "02-Jan-2006 15:04 +07:00", the layout of the first example
LayoutExample1 == <<"0", "2", "-", "J", "a", "n", "-", "2", "0", "0", "6", " ", "1", "5", ":", "0", "4", " ", "+", "0", "7", ":", "0", "0">>

\* "03/04/2021 09:30": both layouts parse it, to different days
TextAmbiguous == <<"0", "3", "/", "0", "4", "/", "2", "0", "2", "1", " ", "0", "9", ":", "3", "0">>
\* "31/12/9999 23:59": the latest day a four-digit year can name; only
\* day/month/year parses it (there is no month 31)
TextLatest == <<"3", "1", "/", "1", "2", "/", "9", "9", "9", "9", " ", "2", "3", ":", "5", "9">>
\* "01/01/0000 00:00": the earliest
TextEarliest == <<"0", "1", "/", "0", "1", "/", "0", "0", "0", "0", " ", "0", "0", ":", "0", "0">>
\* "16/10/2019 12:00:00" and "11-Feb-2021 16:00 +00:00", the example inputs
TextExample2 == <<"1", "6", "/", "1", "0", "/", "2", "0", "1", "9", " ", "1", "2", ":", "0", "0", ":", "0", "0">>
TextExample1 == <<"1", "1", "-", "F", "e", "b", "-", "2", "0", "2", "1", " ", "1", "6", ":", "0", "0", " ", "+", "0", "0", ":", "0", "0">>

NameUTC == <<"U", "T", "C">>
NameParis == <<"E", "u", "r", "o", "p", "e", "/", "P", "a", "r", "i", "s">>
NameUnknown == <<"M", "a", "r", "s", "/", "P", "h", "o", "b", "o", "s">>

---------------------------------------------------------------------------
(* String::from_utf8_lossy: every invalid byte becomes U+FFFD.             *)

from_utf8_lossy(b) ==
    [i \in DOMAIN b |-> IF b[i] = "\\xFF" THEN "U+FFFD" ELSE b[i]]

---------------------------------------------------------------------------
(* Calendar arithmetic used by the time libraries.                         *)

SecondsPerDay == 24 * 3600

IsLeap(y) == (y % 4 = 0) /\ ((y % 100 # 0) \/ (y % 400 = 0))

daysIn(m, y) ==
    IF m = 2 THEN (IF IsLeap(y) THEN 29 ELSE 28)
    ELSE IF m \in {4, 6, 9, 11} THEN 30 ELSE 31

\* Days from 1970-01-01 to the civil date y-m-d (proleptic Gregorian).
DaysFromCivil(y, m, d) ==
    LET yy == IF m <= 2 THEN y - 1 ELSE y
        era == yy \div 400
        yoe == yy - era * 400
        mp == (m + 9) % 12
        doy == (153 * mp + 2) \div 5 + d - 1
        doe == yoe * 365 + yoe \div 4 - yoe \div 100 + doy
    IN  era * 146097 + doe - 719468

\* 0 = Sunday; 1970-01-01 was a Thursday.
Weekday(days) == (days + 4) % 7

LastSunday(y, m) ==
    LET last == DaysFromCivil(y, m, 31) IN last - Weekday(last)

---------------------------------------------------------------------------
(* gostd_time::LoadLocation and the zone lookup of a Location.             *)

\* Ok(location) for a known identifier, Err otherwise.
LoadLocation(name) ==
    IF name = NameUTC \/ name = <<>> THEN Ok("UTC")
    ELSE IF name = NameParis THEN Ok("Europe/Paris")
    ELSE Err("unknown time zone")

\* Offset east of UTC, in seconds, of the wall-clock time days/sod in loc:
\* Paris keeps +1h, and +2h from the last Sunday of March to that of October.
ZoneOffset(loc, y, days, sod) ==
    IF loc = "UTC" THEN 0
    ELSE LET start == LastSunday(y, 3)
             stop == LastSunday(y, 10)
             summer == /\ (days > start \/ (days = start /\ sod >= 2 * 3600))
                       /\ (days < stop \/ (days = stop /\ sod < 3 * 3600))
         IN  IF summer THEN 2 * 3600 ELSE 3600

---------------------------------------------------------------------------
(* gostd_time::ParseInLocation: Go's layout parser.  The reference-time    *)
(* chunks modelled are 2006, 01, 02, 15, 04, 05 and Jan; every other       *)
(* character of a layout is a literal (the sample layouts use no other     *)
(* chunk of the Go reference time).                                        *)

HasPrefix(s, p) == Len(s) >= Len(p) /\ SubSeq(s, 1, Len(p)) = p

Drop(s, n) == SubSeq(s, n + 1, Len(s))

DigitVal(c) ==
    CASE c = "0" -> 0 [] c = "1" -> 1 [] c = "2" -> 2 [] c = "3" -> 3
      [] c = "4" -> 4 [] c = "5" -> 5 [] c = "6" -> 6 [] c = "7" -> 7
      [] c = "8" -> 8 [] c = "9" -> 9 [] OTHER -> -1

isDigit(s, i) == Len(s) >= i /\ DigitVal(s[i]) >= 0

shortMonthNames ==
    << <<"J", "a", "n">>, <<"F", "e", "b">>, <<"M", "a", "r">>, <<"A", "p", "r">>,
       <<"M", "a", "y">>, <<"J", "u", "n">>, <<"J", "u", "l">>, <<"A", "u", "g">>,
       <<"S", "e", "p">>, <<"O", "c", "t">>, <<"N", "o", "v">>, <<"D", "e", "c">> >>

\* The chunk at the head of a layout, "" when the head is a literal.
nextStdChunk(layout) ==
    IF HasPrefix(layout, <<"2", "0", "0", "6">>) THEN "2006"
    ELSE IF HasPrefix(layout, <<"J", "a", "n">>) THEN "Jan"
    ELSE IF HasPrefix(layout, <<"0", "1">>) THEN "01"
    ELSE IF HasPrefix(layout, <<"0", "2">>) THEN "02"
    ELSE IF HasPrefix(layout, <<"0", "4">>) THEN "04"
    ELSE IF HasPrefix(layout, <<"0", "5">>) THEN "05"
    ELSE IF HasPrefix(layout, <<"1", "5">>) THEN "15"
    ELSE ""

ChunkLen(std) == IF std = "2006" THEN 4 ELSE IF std = "Jan" THEN 3 ELSE 2

\* getnum: one or two digits (exactly two when fixed); n = -1 on failure.
getnum(s, fixed) ==
    IF ~isDigit(s, 1) THEN [n |-> -1, rest |-> s]
    ELSE IF ~isDigit(s, 2)
         THEN (IF fixed THEN [n |-> -1, rest |-> s]
               ELSE [n |-> DigitVal(s[1]), rest |-> Drop(s, 1)])
         ELSE [n |-> DigitVal(s[1]) * 10 + DigitVal(s[2]), rest |-> Drop(s, 2)]

\* The four-digit year; n = -1 on failure.
getyear(s) ==
    IF Len(s) >= 4 /\ \A i \in 1..4 : isDigit(s, i)
    THEN [n |-> ((DigitVal(s[1]) * 10 + DigitVal(s[2])) * 10 + DigitVal(s[3])) * 10
                 + DigitVal(s[4]),
          rest |-> Drop(s, 4)]
    ELSE [n |-> -1, rest |-> s]

\* lookup in shortMonthNames; n = -1 on failure.
getmonth(s) ==
    IF \E m \in 1..12 : HasPrefix(s, shortMonthNames[m])
    THEN [n |-> CHOOSE m \in 1..12 : HasPrefix(s, shortMonthNames[m]),
          rest |-> Drop(s, 3)]
    ELSE [n |-> -1, rest |-> s]

RECURSIVE cutspace(_)
cutspace(s) == IF Len(s) > 0 /\ s[1] = " " THEN cutspace(Drop(s, 1)) ELSE s

DefaultFields ==
    [year |-> 0, month |-> 1, day |-> 1, hour |-> 0, min |-> 0, sec |-> 0]

\* Walks the layout over the value; Ok(fields) or Err.
RECURSIVE ParseFields(_, _, _)
ParseFields(layout, value, f) ==
    IF Len(layout) = 0
    THEN (IF Len(value) = 0 THEN Ok(f) ELSE Err("extra text"))
    ELSE LET std == nextStdChunk(layout)
             rest == Drop(layout, ChunkLen(std))
         IN  IF std = ""
             THEN IF layout[1] = " "
                  THEN (IF Len(value) > 0 /\ value[1] = " "
                        THEN ParseFields(cutspace(layout), cutspace(value), f)
                        ELSE Err("bad value"))
                  ELSE (IF Len(value) > 0 /\ value[1] = layout[1]
                        THEN ParseFields(Drop(layout, 1), Drop(value, 1), f)
                        ELSE Err("bad value"))
             ELSE LET g == IF std = "2006" THEN getyear(value)
                           ELSE IF std = "Jan" THEN getmonth(value)
                           ELSE getnum(value, std # "15")
                      inRange ==
                          CASE std = "2006" -> g.n >= 0
                            [] std \in {"Jan", "01"} -> g.n >= 1 /\ g.n <= 12
                            [] std = "02" -> g.n >= 0
                            [] std = "15" -> g.n >= 0 /\ g.n < 24
                            [] OTHER -> g.n >= 0 /\ g.n < 60
                      field ==
                          CASE std = "2006" -> "year"
                            [] std \in {"Jan", "01"} -> "month"
                            [] std = "02" -> "day"
                            [] std = "15" -> "hour"
                            [] std = "04" -> "min"
                            [] OTHER -> "sec"
                  IN  IF inRange
                      THEN ParseFields(rest, g.rest, [f EXCEPT ![field] = g.n])
                      ELSE Err("out of range")

\* Wall-clock fields read in loc, as the instant <<days, sod, nsec>>.
Date(f, loc) ==
    LET days == DaysFromCivil(f.year, f.month, f.day)
        sod == f.hour * 3600 + f.min * 60 + f.sec
        utc == sod - ZoneOffset(loc, f.year, days, sod)
    IN  IF utc < 0 THEN <<days - 1, utc + SecondsPerDay, 0>>
        ELSE <<days, utc, 0>>

\* Ok(time) when the layout parses the value, Err otherwise.
ParseInLocation(layout, value, loc) ==
    LET r == ParseFields(layout, value, DefaultFields)
    IN  IF r.tag = "err" THEN r
        ELSE IF r.v.day < 1 \/ r.v.day > daysIn(r.v.month, r.v.year)
             THEN Err("day out of range")
             ELSE Ok(Date(r.v, loc))

\* Time::Unix, as <<days, sod>>, and Time::Nanosecond.
Unix(t) == <<t[1], t[2]>>
Nanosecond(t) == t[3]

---------------------------------------------------------------------------
(* chrono::DateTime::from_timestamp: None outside the representable range. *)

None == [tag |-> "none"]
Some(v) == [tag |-> "some", v |-> v]

\* NaiveDate::MIN and NaiveDate::MAX as days since 1970-01-01.
MinDate == DaysFromCivil(-262143, 1, 1)
MaxDate == DaysFromCivil(262142, 12, 31)

from_timestamp(secs, nsecs) ==
    IF secs[1] < MinDate \/ secs[1] > MaxDate THEN None
    ELSE IF nsecs >= 2000000000 \/ (nsecs >= 1000000000 /\ secs[2] % 60 # 59)
         THEN None
         ELSE Some(<<secs[1], secs[2], nsecs>>)

---------------------------------------------------------------------------
(* Expressions of a call site, and the TypeState they are compiled in.     *)

Lit(v) == [e |-> "lit", v |-> v]
Query(path) == [e |-> "query", path |-> path]
Var(name) == [e |-> "var", name |-> name]
Array(items) == [e |-> "array", items |-> items]
\* A fallible call on the record's ts field: it fails on an integer.
Call == [e |-> "call"]

Kinds == {"bytes", "integer", "boolean", "timestamp", "array"}

\* tz is bound to a constant; zone is a string known only at runtime.
TypeState ==
    [tz |-> [kinds |-> {"bytes"}, value |-> Some(Bytes(NameParis))],
     zone |-> [kinds |-> {"bytes"}, value |-> None]]

EmptyTypeState == [tz |-> [kinds |-> Kinds, value |-> None],
                   zone |-> [kinds |-> Kinds, value |-> None]]

TypeStates == {TypeState, EmptyTypeState}

\* The statically known kind set of an expression.
StaticKind(expr, state) ==
    CASE expr.e = "lit" -> {expr.v.kind}
      [] expr.e = "var" -> state[expr.name].kinds
      [] expr.e = "array" -> {"array"}
      [] expr.e = "call" -> {"bytes", "timestamp"}
      [] OTHER -> Kinds

\* Some(value) when the expression is a compile-time constant, else None.
resolve_constant(expr, state) ==
    CASE expr.e = "lit" -> Some(expr.v)
      [] expr.e = "var" -> state[expr.name].value
      [] OTHER -> None

\* Value::try_bytes_utf8_lossy
try_bytes_utf8_lossy(v) ==
    IF v.kind = "bytes" THEN Ok(from_utf8_lossy(v.text)) ELSE Err("not bytes")

---------------------------------------------------------------------------
(* Function::parameters and the binding of a call site to them.            *)

parameters ==
    << [keyword |-> "value", kind |-> {"bytes", "timestamp"}, required |-> TRUE],
       [keyword |-> "formats", kind |-> {"array"}, required |-> TRUE],
       [keyword |-> "timezone", kind |-> {"bytes"}, required |-> TRUE] >>

Keywords == {parameters[i].keyword : i \in DOMAIN parameters}

ParamOf(k) == CHOOSE q \in {parameters[i] : i \in DOMAIN parameters} : q.keyword = k

Arg(k, expr) == [keyword |-> k, expr |-> expr]

CompileErr(error, k) == [tag |-> "err", error |-> error, keyword |-> k]

\* The parameter keyword an argument of the call site is bound to: its own
\* keyword, or for the n-th positional argument that of the n-th parameter
\* ("" when there is none).
BoundKeyword(site, i) ==
    IF site[i].keyword # "" THEN site[i].keyword
    ELSE LET n == Cardinality({j \in 1..i : site[j].keyword = ""})
         IN  IF n <= Len(parameters) THEN parameters[n].keyword ELSE ""

\* ArgumentList of a call site: Ok(keyword -> expression), or the error of
\* the first argument that names no parameter or whose kind set misses the
\* parameter's, or of the first required parameter left out.
BindArguments(site, state) ==
    LET bad(i) ==
            LET k == BoundKeyword(site, i)
            IN  \/ k \notin Keywords
                \/ StaticKind(site[i].expr, state) \cap ParamOf(k).kind = {}
        bound == {BoundKeyword(site, i) : i \in DOMAIN site}
        missing == {i \in DOMAIN parameters :
                        parameters[i].required /\ parameters[i].keyword \notin bound}
    IN  IF \E i \in DOMAIN site : bad(i)
        THEN LET i == CHOOSE i \in DOMAIN site :
                          bad(i) /\ \A j \in 1..(i - 1) : ~bad(j)
                 k == BoundKeyword(site, i)
             IN  IF site[i].keyword = "" /\ k = ""
                 THEN CompileErr("WrongNumberOfArgs", "")
                 ELSE IF k \notin Keywords
                      THEN CompileErr("UnknownKeyword", k)
                      ELSE CompileErr("InvalidArgumentKind", k)
        ELSE IF missing # {}
             THEN CompileErr("MissingArgument",
                             parameters[CHOOSE i \in missing :
                                            \A j \in missing : i <= j].keyword)
             ELSE Ok([k \in bound |->
                        site[CHOOSE i \in DOMAIN site : BoundKeyword(site, i) = k].expr])

\* ArgumentList::required_array
required_array(arguments, k) ==
    IF arguments[k].e = "array" THEN Ok(arguments[k].items)
    ELSE CompileErr("UnexpectedExpression", k)

---------------------------------------------------------------------------
(* ParseGoTimestamp::compile                                               *)

\* One element of the formats array: the closure passed to map().
CompilePattern(expr, state) ==
    LET c == resolve_constant(expr, state)
    IN  IF c = None THEN CompileErr("ExpectedStaticExpression", "formats")
        ELSE LET b == try_bytes_utf8_lossy(c.v)
             IN  IF b.tag = "err" THEN CompileErr("InvalidArgument", "formats")
                 ELSE Ok(b.v)

\* Mutant: the collected patterns come out in reverse order.
RECURSIVE CollectPatternsReversed(_, _)
CollectPatternsReversed(items, state) ==
    IF items = <<>> THEN Ok(<<>>)
    ELSE LET head == CompilePattern(items[1], state)
         IN  IF head.tag = "err" THEN head
             ELSE LET tail == CollectPatternsReversed(Drop(items, 1), state)
                  IN  IF tail.tag = "err" THEN tail
                      ELSE Ok(tail.v \o <<head.v>>)

\* map(...).collect::<Result<Vec<String>, _>>(): the patterns in order, or
\* the error of the first element that has one.
RECURSIVE CollectPatterns(_, _)
CollectPatterns(items, state) ==
    IF items = <<>> THEN Ok(<<>>)
    ELSE LET head == CompilePattern(items[1], state)
         IN  IF head.tag = "err" THEN head
             ELSE LET tail == CollectPatterns(Drop(items, 1), state)
                  IN  IF tail.tag = "err" THEN tail
                      ELSE Ok(<<head.v>> \o tail.v)

\* Mutant: a timezone that is not a constant is taken to be UTC.
CompileTimezoneDefaultUTC(expr, state) ==
    LET c == resolve_constant(expr, state)
    IN  IF c = None THEN Ok("UTC")
        ELSE LET b == try_bytes_utf8_lossy(c.v)
             IN  IF b.tag = "err" THEN CompileErr("InvalidArgument", "timezone")
                 ELSE LET loc == LoadLocation(b.v)
                      IN  IF loc.tag = "err"
                          THEN CompileErr("InvalidArgument", "timezone")
                          ELSE loc

\* Mutant: a timezone name that does not load falls back to UTC.
CompileTimezoneFallback(expr, state) ==
    LET c == resolve_constant(expr, state)
    IN  IF c = None THEN CompileErr("ExpectedStaticExpression", "timezone")
        ELSE LET b == try_bytes_utf8_lossy(c.v)
             IN  IF b.tag = "err" THEN CompileErr("InvalidArgument", "timezone")
                 ELSE LET loc == LoadLocation(b.v)
                      IN  IF loc.tag = "err" THEN Ok("UTC") ELSE loc

CompileTimezone(expr, state) ==
    LET c == resolve_constant(expr, state)
    IN  IF c = None THEN CompileErr("ExpectedStaticExpression", "timezone")
        ELSE LET b == try_bytes_utf8_lossy(c.v)
             IN  IF b.tag = "err" THEN CompileErr("InvalidArgument", "timezone")
                 ELSE LET loc == LoadLocation(b.v)
                      IN  IF loc.tag = "err"
                          THEN CompileErr("InvalidArgument", "timezone")
                          ELSE loc

compile(state, arguments) ==
    LET value == arguments["value"]
        array == required_array(arguments, "formats")
    IN  IF array.tag = "err" THEN array
        ELSE LET formats == CollectPatterns(array.v, state)
             IN  IF formats.tag = "err" THEN formats
                 ELSE LET loc == CompileTimezone(arguments["timezone"], state)
                      IN  IF loc.tag = "err" THEN loc
                          ELSE Ok([value |-> value, formats |-> formats.v,
                                   loc |-> loc.v])

\* Mutant: the node is declared infallible.
type_def_infallible(node, state) == [kinds |-> {"timestamp"}, fallible |-> FALSE]

\* ParseGoTimestampFn::type_def
type_def(node, state) == [kinds |-> {"timestamp"}, fallible |-> TRUE]

---------------------------------------------------------------------------
(* parse_go_timestamp and ParseGoTimestampFn::resolve as functions.        *)

\* Context: the record an evaluation runs against.
Context(v) == [ts |-> v]

\* Expression::resolve of the value sub-expression.
ResolveExpr(expr, ctx) ==
    CASE expr.e = "lit" -> Ok(expr.v)
      [] expr.e = "call" ->
            IF ctx.ts.kind = "integer" THEN Err("function call error")
            ELSE Ok(ctx.ts)
      [] OTHER -> Ok(ctx.ts)

\* Line 20: no format parsed the text.
NoMatch == Err("unable to convert value to timestamp")

\* Mutant: the timestamp is rebuilt from its whole seconds.
PassThroughSeconds(value) == Ok(Timestamp(<<value.ts[1], value.ts[2], 0>>))

\* Line 22: a timestamp is returned as it is.
PassThrough(value) == Ok(value)

\* Mutant: the wrong kind is reported with a reason of its own.
OtherKindOwnReason(value) == Err("unsupported value kind")

\* Line 23: a value that is neither bytes nor timestamp.
OtherKind(value) == Err("unable to convert value to timestamp")

\* Mutant: the seconds are converted as an unsigned count, which has no
\* instant before 1970.
ConvertUnsigned(t) ==
    LET d == IF t[1] < 0 THEN None ELSE from_timestamp(Unix(t), Nanosecond(t))
    IN  IF d = None THEN Panic ELSE Ok(Timestamp(d.v))

\* Lines 15-17: the parsed time as a Value; unwrap() aborts on None.
Convert(t) ==
    LET d == from_timestamp(Unix(t), Nanosecond(t))
    IN  IF d = None THEN Panic ELSE Ok(Timestamp(d.v))

\* Lines 13-20: the loop over the formats, from the n-th on.
RECURSIVE TryFormats(_, _, _, _)
TryFormats(formats, text, timezone, n) ==
    IF n > Len(formats) THEN NoMatch
    ELSE LET r == ParseInLocation(formats[n], text, timezone)
         IN  IF r.tag = "ok" THEN Convert(r.v)
             ELSE TryFormats(formats, text, timezone, n + 1)

parse_go_timestamp(value, formats, timezone) ==
    CASE value.kind = "bytes" ->
            TryFormats(formats, from_utf8_lossy(value.text), timezone, 1)
      [] value.kind = "timestamp" -> PassThrough(value)
      [] OTHER -> OtherKind(value)

resolve(node, ctx) ==
    LET value == ResolveExpr(node.value, ctx)
    IN  IF value.tag = "err" THEN value
        ELSE parse_go_timestamp(value.v, node.formats, node.loc)

---------------------------------------------------------------------------
(* Call sites.                                                             *)

\* Function::examples: the source of each example as a call site, with the
\* instant of its stated result.
Example1 ==
    << Arg("", Lit(Bytes(TextExample1))),
       Arg("format", Lit(Bytes(LayoutExample1))) >>
Example2 ==
    << Arg("", Lit(Bytes(TextExample2))),
       Arg("format", Lit(Bytes(LayoutDMYS))),
       Arg("timezone", Lit(Bytes(NameParis))) >>
examples ==
    << [source |-> Example1,
        result |-> Ok(Timestamp(<<DaysFromCivil(2021, 2, 11), 16 * 3600, 0>>))],
       [source |-> Example2,
        result |-> Ok(Timestamp(<<DaysFromCivil(2019, 10, 16), 10 * 3600, 0>>))] >>

ValueExprs == {Call, Lit(Integer(1))}

FormatItems ==
    {Lit(Bytes(LayoutDMY)), Lit(Bytes(LayoutMDY)), Lit(Integer(7)), Query("fmt")}

SeqsUpTo(S, n) == UNION {[1..k -> S] : k \in 0..n}

FormatsExprs ==
    {Array(items) : items \in SeqsUpTo(FormatItems, MaxFormats)}
        \cup {Query("fmts"), Lit(Bytes(LayoutDMY))}

TimezoneExprs ==
    {Lit(Bytes(NameUTC)), Var("tz"), Lit(Bytes(NameUnknown)), Var("zone"),
     Lit(Integer(5))}

CallSites ==
    {examples[i].source : i \in DOMAIN examples}
        \cup {<<Arg("", v), Arg("formats", f), Arg("timezone", z)>> :
                v \in ValueExprs, f \in FormatsExprs, z \in TimezoneExprs}

\* The records the host pipeline feeds to the compiled program.
Contexts ==
    {Context(Bytes(TextAmbiguous)), Context(Bytes(TextLatest)),
     Context(Bytes(TextEarliest)), Context(Timestamp(<<18669, 57600, 5>>)),
     Context(Integer(5)), Context(Boolean(TRUE))}

---------------------------------------------------------------------------
(* The program: bind, compile, then concurrent evaluations of the node.    *)

VARIABLES
    site,       \* the call site handed over by the parser
    arguments,  \* None, or the outcome of binding it to the parameters
    compiled,   \* None, or the outcome of compile
    ctx,        \* ctx[e]: the Context of evaluation e, None before it starts
    pc,         \* pc[e]: "idle", "match", "loop" or "done"
    value,      \* value[e]: what the value sub-expression resolved to
    text,       \* text[e]: the lossy UTF-8 text of a bytes value
    idx,        \* idx[e]: the index of the format the loop is at
    calls,      \* calls[e]: how many times ParseInLocation was called
    result      \* result[e]: None, or what resolve returned

vars == <<site, arguments, compiled, ctx, pc, value, text, idx, calls, result>>

Init ==
    /\ site \in CallSites
    /\ arguments = None
    /\ compiled = None
    /\ ctx = [e \in Evals |-> None]
    /\ pc = [e \in Evals |-> "idle"]
    /\ value = [e \in Evals |-> None]
    /\ text = [e \in Evals |-> <<>>]
    /\ idx = [e \in Evals |-> 0]
    /\ calls = [e \in Evals |-> 0]
    /\ result = [e \in Evals |-> None]

\* The registry binds the call site to the parameters.
Bind ==
    /\ arguments = None
    /\ arguments' = BindArguments(site, TypeState)
    /\ UNCHANGED <<site, compiled, ctx, pc, value, text, idx, calls, result>>

\* compile runs once, on a call site that was bound.
Compile ==
    /\ arguments # None /\ arguments.tag = "ok"
    /\ compiled = None
    /\ compiled' = compile(TypeState, arguments.v)
    /\ UNCHANGED <<site, arguments, ctx, pc, value, text, idx, calls, result>>

\* Mutant: a failure of the value sub-expression is reported as the
\* uniform conversion error.
ResolveValueUniform(e, c) ==
    /\ compiled # None /\ compiled.tag = "ok"
    /\ pc[e] = "idle"
    /\ ctx' = [ctx EXCEPT ![e] = c]
    /\ LET r == ResolveExpr(compiled.v.value, c)
       IN  IF r.tag = "err"
           THEN /\ result' = [result EXCEPT ![e] = NoMatch]
                /\ pc' = [pc EXCEPT ![e] = "done"]
                /\ UNCHANGED value
           ELSE /\ value' = [value EXCEPT ![e] = r.v]
                /\ pc' = [pc EXCEPT ![e] = "match"]
                /\ UNCHANGED result
    /\ UNCHANGED <<site, arguments, compiled, text, idx, calls>>

\* Line 136: resolve starts on Context c and resolves the value
\* sub-expression; `?` returns its error.
ResolveValue(e, c) ==
    /\ compiled # None /\ compiled.tag = "ok"
    /\ pc[e] = "idle"
    /\ ctx' = [ctx EXCEPT ![e] = c]
    /\ LET r == ResolveExpr(compiled.v.value, c)
       IN  IF r.tag = "err"
           THEN /\ result' = [result EXCEPT ![e] = r]
                /\ pc' = [pc EXCEPT ![e] = "done"]
                /\ UNCHANGED value
           ELSE /\ value' = [value EXCEPT ![e] = r.v]
                /\ pc' = [pc EXCEPT ![e] = "match"]
                /\ UNCHANGED result
    /\ UNCHANGED <<site, arguments, compiled, text, idx, calls>>

\* Lines 10-12, 22-23: the match on the value's kind.
Match(e) ==
    /\ pc[e] = "match"
    /\ IF value[e].kind = "bytes"
       THEN /\ text' = [text EXCEPT ![e] = from_utf8_lossy(value[e].text)]
            /\ idx' = [idx EXCEPT ![e] = 1]
            /\ pc' = [pc EXCEPT ![e] = "loop"]
            /\ UNCHANGED result
       ELSE /\ result' = [result EXCEPT ![e] =
                            IF value[e].kind = "timestamp"
                            THEN PassThrough(value[e]) ELSE OtherKind(value[e])]
            /\ pc' = [pc EXCEPT ![e] = "done"]
            /\ UNCHANGED <<text, idx>>
    /\ UNCHANGED <<site, arguments, compiled, ctx, value, calls>>

\* Mutant: the loop consumes the node's formats list, dropping each format
\* that failed, instead of walking it by index.
TryFormatConsuming(e) ==
    /\ pc[e] = "loop"
    /\ IF compiled.v.formats = <<>>
       THEN /\ result' = [result EXCEPT ![e] = NoMatch]
            /\ pc' = [pc EXCEPT ![e] = "done"]
            /\ UNCHANGED <<idx, calls, compiled>>
       ELSE LET r == ParseInLocation(compiled.v.formats[1], text[e], compiled.v.loc)
            IN  /\ calls' = [calls EXCEPT ![e] = @ + 1]
                /\ IF r.tag = "ok"
                   THEN /\ result' = [result EXCEPT ![e] = Convert(r.v)]
                        /\ pc' = [pc EXCEPT ![e] = "done"]
                        /\ UNCHANGED <<idx, compiled>>
                   ELSE /\ idx' = [idx EXCEPT ![e] = @ + 1]
                        /\ compiled' = [compiled EXCEPT !.v.formats = Tail(@)]
                        /\ UNCHANGED <<pc, result>>
    /\ UNCHANGED <<site, arguments, ctx, value, text>>

\* Lines 13-20: one iteration of the loop, or its end.
TryFormat(e) ==
    /\ pc[e] = "loop"
    /\ IF idx[e] > Len(compiled.v.formats)
       THEN /\ result' = [result EXCEPT ![e] = NoMatch]
            /\ pc' = [pc EXCEPT ![e] = "done"]
            /\ UNCHANGED <<idx, calls>>
       ELSE LET r == ParseInLocation(compiled.v.formats[idx[e]], text[e],
                                     compiled.v.loc)
            IN  /\ calls' = [calls EXCEPT ![e] = @ + 1]
                /\ IF r.tag = "ok"
                   THEN /\ result' = [result EXCEPT ![e] = Convert(r.v)]
                        /\ pc' = [pc EXCEPT ![e] = "done"]
                        /\ UNCHANGED idx
                   ELSE /\ idx' = [idx EXCEPT ![e] = @ + 1]
                        /\ UNCHANGED <<pc, result>>
    /\ UNCHANGED <<site, arguments, compiled, ctx, value, text>>

Next ==
    \/ Bind
    \/ Compile
    \/ \E e \in Evals, c \in Contexts : ResolveValue(e, c)
    \/ \E e \in Evals : Match(e)
    \/ \E e \in Evals : TryFormat(e)

Spec == Init /\ [][Next]_vars

---------------------------------------------------------------------------
(* Properties.                                                             *)

Done(e) == pc[e] = "done"
Compiled == compiled # None /\ compiled.tag = "ok"

\* The formats array of the bound call site and what its elements are.
IsArray == arguments.v["formats"].e = "array"
Items == arguments.v["formats"].items
Const(expr) == resolve_constant(expr, TypeState)
IsConstString(expr) == Const(expr) # None /\ Const(expr).v.kind = "bytes"
\* The first element of the formats array that is not a constant string.
AllConstStrings == \A i \in DOMAIN Items : IsConstString(Items[i])
FirstBad ==
    CHOOSE i \in DOMAIN Items :
        ~IsConstString(Items[i]) /\ \A j \in 1..(i - 1) : IsConstString(Items[j])
TimezoneArg == arguments.v["timezone"]
TimezoneLoadable ==
    /\ IsConstString(TimezoneArg)
    /\ LoadLocation(from_utf8_lossy(Const(TimezoneArg).v.text)).tag = "ok"

\* The call site's formats, in call-site order, as strings.
SiteFormats == [i \in DOMAIN Items |-> from_utf8_lossy(Const(Items[i]).v.text)]

\* The indices of the formats that parse the text in the location.
Matching(formats, txt, loc) ==
    {i \in DOMAIN formats : ParseInLocation(formats[i], txt, loc).tag = "ok"}

Least(S) == CHOOSE i \in S : \A j \in S : i <= j

\* C1: compile keeps the call site's formats in their order and number, and
\* a bytes input resolves to the timestamp of the first format, in that
\* order, that parses it in the compiled timezone (to the uniform error when
\* none does), whatever later formats would parse it to.
C1_FormatPrecedence ==
    Compiled =>
        /\ compiled.v.formats = SiteFormats
        /\ \A e \in Evals :
              (Done(e) /\ value[e] # None /\ value[e].kind = "bytes") =>
                  LET txt == from_utf8_lossy(value[e].text)
                      m == Matching(SiteFormats, txt, compiled.v.loc)
                  IN  IF m = {} THEN result[e].tag = "err"
                      ELSE result[e] =
                              Ok(Timestamp(ParseInLocation(SiteFormats[Least(m)],
                                                           txt, compiled.v.loc).v))

\* Two formats parse the input, to different instants, and resolve returned.
C1_Witness ==
    /\ Compiled
    /\ \E e \in Evals :
          /\ Done(e) /\ value[e] # None /\ value[e].kind = "bytes"
          /\ result[e].tag = "ok"
          /\ LET txt == from_utf8_lossy(value[e].text)
                 f == compiled.v.formats
             IN  \E i, j \in Matching(f, txt, compiled.v.loc) :
                    ParseInLocation(f[i], txt, compiled.v.loc)
                        # ParseInLocation(f[j], txt, compiled.v.loc)

\* C2: a value sub-expression that resolves to a timestamp makes resolve
\* return that very value, and ParseInLocation is never called.
C2_IdentityPassthrough ==
    \A e \in Evals :
        (Done(e) /\ value[e] # None /\ value[e].kind = "timestamp") =>
            /\ result[e] = Ok(value[e])
            /\ calls[e] = 0

\* A timestamp with sub-second precision went through a node that has
\* formats and a timezone other than UTC.
C2_Witness ==
    /\ Compiled
    /\ compiled.v.formats # <<>> /\ compiled.v.loc = "Europe/Paris"
    /\ \E e \in Evals :
          /\ Done(e) /\ ctx[e].ts.kind = "timestamp" /\ ctx[e].ts.ts[3] # 0
          /\ result[e].tag = "ok"

\* C3: a bytes input that no format parses (an empty formats list included)
\* and an input that is neither bytes nor timestamp both fail with the
\* reason "unable to convert value to timestamp".
C3_ExhaustiveMismatch ==
    \A e \in Evals :
        (Done(e) /\ value[e] # None) =>
            LET noFormat ==
                    /\ value[e].kind = "bytes"
                    /\ Matching(compiled.v.formats, from_utf8_lossy(value[e].text),
                                compiled.v.loc) = {}
                otherKind == value[e].kind \notin {"bytes", "timestamp"}
            IN  (noFormat \/ otherKind) =>
                    result[e] = Err("unable to convert value to timestamp")

\* One evaluation failed on bytes that no format of a non-empty list parses,
\* another on a boolean.
C3_Witness ==
    /\ Compiled /\ compiled.v.formats # <<>>
    /\ \E e1, e2 \in Evals :
          /\ Done(e1) /\ value[e1] # None /\ value[e1].kind = "bytes"
          /\ result[e1].tag = "err"
          /\ Done(e2) /\ value[e2] # None /\ value[e2].kind = "boolean"
          /\ result[e2].tag = "err"

\* C4 as stated: once compile has run, a timezone argument or a formats
\* element that is not a constant makes its outcome ExpectedStaticExpression
\* with the keyword of an argument that is not constant.
C4_AsStated ==
    compiled # None =>
        LET tzDyn == Const(TimezoneArg) = None
            fmtDyn == IsArray /\ \E i \in DOMAIN Items : Const(Items[i]) = None
        IN  (tzDyn \/ fmtDyn) =>
                /\ compiled.tag = "err"
                /\ compiled.error = "ExpectedStaticExpression"
                /\ compiled.keyword \in
                      (IF tzDyn THEN {"timezone"} ELSE {})
                          \cup (IF fmtDyn THEN {"formats"} ELSE {})

\* C4, amended: a timezone argument or a formats element that is not a
\* constant makes compile fail, no node exists and no evaluation ever
\* starts; the error is ExpectedStaticExpression("formats") when the first
\* formats element that is not a constant string is not a constant, and
\* ExpectedStaticExpression("timezone") when every formats element is a
\* constant string and the timezone is not a constant.
C4_ConstantEnforcement ==
    compiled # None =>
        LET tzDyn == Const(TimezoneArg) = None
            fmtDyn == IsArray /\ \E i \in DOMAIN Items : Const(Items[i]) = None
        IN  /\ (tzDyn \/ fmtDyn) =>
                  /\ compiled.tag = "err"
                  /\ \A e \in Evals : pc[e] = "idle" /\ result[e] = None
            /\ (IsArray /\ ~AllConstStrings /\ Const(Items[FirstBad]) = None) =>
                  compiled = CompileErr("ExpectedStaticExpression", "formats")
            /\ (IsArray /\ AllConstStrings /\ tzDyn) =>
                  compiled = CompileErr("ExpectedStaticExpression", "timezone")

\* compile ran on a call site whose formats are constant strings and whose
\* timezone is only known at runtime, and refused it.
C4_Witness ==
    /\ compiled = CompileErr("ExpectedStaticExpression", "timezone")
    /\ IsArray /\ Items # <<>> /\ Const(TimezoneArg) = None

\* C5 as stated: a constant timezone that is no string or names no loadable
\* zone gives InvalidArgument("timezone"), a constant formats element that
\* is no string gives InvalidArgument("formats"), and a node is returned only
\* for constant string formats and a constant loadable timezone.
C5_AsStated ==
    compiled # None =>
        /\ (Const(TimezoneArg) # None /\ ~TimezoneLoadable) =>
              compiled = CompileErr("InvalidArgument", "timezone")
        /\ (IsArray /\ \E i \in DOMAIN Items :
                          Const(Items[i]) # None /\ ~IsConstString(Items[i])) =>
              compiled = CompileErr("InvalidArgument", "formats")
        /\ compiled.tag = "ok" => (IsArray /\ AllConstStrings /\ TimezoneLoadable)

\* C5, amended: an invalid constant makes compile fail; the error is
\* InvalidArgument("formats") when the first formats element that is not a
\* constant string is a constant, InvalidArgument("timezone") when every
\* formats element is a constant string and the timezone is a constant that
\* is no string or names no loadable zone; a node is returned only for
\* constant string formats and a constant loadable timezone.
C5_InvalidConstant ==
    compiled # None =>
        /\ (Const(TimezoneArg) # None /\ ~TimezoneLoadable) => compiled.tag = "err"
        /\ (IsArray /\ \E i \in DOMAIN Items :
                          Const(Items[i]) # None /\ ~IsConstString(Items[i])) =>
              compiled.tag = "err"
        /\ (IsArray /\ ~AllConstStrings /\ Const(Items[FirstBad]) # None) =>
              compiled = CompileErr("InvalidArgument", "formats")
        /\ (IsArray /\ AllConstStrings /\ Const(TimezoneArg) # None
                /\ ~TimezoneLoadable) =>
              compiled = CompileErr("InvalidArgument", "timezone")
        /\ compiled.tag = "ok" => (IsArray /\ AllConstStrings /\ TimezoneLoadable)

\* compile refused a constant timezone string that names no zone.
C5_Witness ==
    /\ compiled = CompileErr("InvalidArgument", "timezone")
    /\ IsConstString(TimezoneArg) /\ ~TimezoneLoadable

\* C6: every example uses only declared keywords and supplies every
\* required parameter, so it binds to the parameters, compiles, and resolves
\* to its stated result.
C6_ExamplesValid ==
    \A i \in DOMAIN examples :
        site = examples[i].source =>
            /\ \A a \in DOMAIN site :
                  site[a].keyword = "" \/ site[a].keyword \in Keywords
            /\ \A q \in DOMAIN parameters :
                  parameters[q].required =>
                      \E a \in DOMAIN site :
                          BoundKeyword(site, a) = parameters[q].keyword
            /\ arguments # None => arguments.tag = "ok"
            /\ compiled # None => compiled.tag = "ok"
            /\ \A e \in Evals : Done(e) => result[e] = examples[i].result

\* C7: type_def is {timestamp}, fallible, in every TypeState; an Ok result
\* is of a declared kind and a failing resolve belongs to a fallible node.
C7_TypeSoundness ==
    Compiled =>
        /\ \A s \in TypeStates :
              type_def(compiled.v, s) = [kinds |-> {"timestamp"}, fallible |-> TRUE]
        /\ \A e \in Evals : Done(e) =>
              IF result[e].tag = "ok"
              THEN result[e].v.kind \in type_def(compiled.v, TypeState).kinds
              ELSE type_def(compiled.v, TypeState).fallible

\* One evaluation of a node returned a timestamp and another one failed.
C7_Witness ==
    /\ Compiled
    /\ \E e1, e2 \in Evals :
          /\ Done(e1) /\ result[e1].tag = "ok"
          /\ Done(e2) /\ result[e2].tag = "err"

C9_ImmutableNode ==
    [][/\ compiled # None => compiled' = compiled
       /\ \A e \in Evals : ctx[e] # None => ctx'[e] = ctx[e]
       /\ \A e \in Evals :
             pc'[e] = "done" =>
                 result'[e] = resolve(compile(TypeState, arguments.v).v, ctx'[e])]_vars

\* One evaluation is inside the loop, past a format that failed, while
\* another one, on another Context, has returned a timestamp.
C9_Witness ==
    \E e1, e2 \in Evals :
        /\ pc[e1] = "loop" /\ idx[e1] > 1
        /\ Done(e2) /\ result[e2].tag = "ok" /\ calls[e2] > 0
        /\ ctx[e1] # ctx[e2]

\* C10: when the value sub-expression fails, resolve returns that error as
\* it is and ParseInLocation is never called; it is called only on a value
\* that resolved to bytes.
C10_ChildFailure ==
    \A e \in Evals :
        /\ (Done(e) /\ ResolveExpr(compiled.v.value, ctx[e]).tag = "err") =>
              /\ result[e] = ResolveExpr(compiled.v.value, ctx[e])
              /\ result[e] # Err("unable to convert value to timestamp")
              /\ calls[e] = 0
        /\ calls[e] > 0 => (value[e] # None /\ value[e].kind = "bytes")

\* The child failed under a node that has formats.
C10_Witness ==
    /\ Compiled /\ compiled.v.formats # <<>>
    /\ \E e \in Evals :
          Done(e) /\ ResolveExpr(compiled.v.value, ctx[e]).tag = "err"

====
